---- MODULE Spec2Model ----
(***************************************************************************)
(* A model of the JustAct core (Lut99/justact-rs).                         *)
(*                                                                         *)
(* Part I models the May 2024 revision (set.rs, agreements.rs,             *)
(* statements.rs, policy.rs): LocalSet, Agreement, Action, and             *)
(* Action::audit.  Part II models the January 2025 revision (actors.rs,    *)
(* collections/map.rs): the View and its resolution of statements.         *)
(***************************************************************************)
EXTENDS Integers, Sequences, FiniteSets, TLC

(***************************************************************************)
(* Bounds and input domains.                                               *)
(***************************************************************************)
\* Number of distinct message identifiers.
MaxId == 2

MsgIds == 1..MaxId

\* Timestamps are only ever compared for equality; two values suffice.
Times == {5, 6}

\* Payloads are opaque to the core.  The three values are what the policy
\* language of the model makes of them: a well-formed and valid fragment, a
\* syntactically broken one, and a well-formed fragment that makes the policy
\* invalid.
Payloads == {"ok", "syn", "inv"}

\* Option::None.
None == [none |-> TRUE]

\* statements.rs, trait Message: an identifier and a payload (the author plays
\* no part in the audit).
Messages == [id : MsgIds, payload : Payloads]

\* agreements.rs, struct Agreement.
Agreements == [msg : Messages, timestamp : Times]

\* Identifiable::id() for messages and agreements (an agreement is identified
\* by its message).
IdOf(e) == IF "msg" \in DOMAIN e THEN e.msg.id ELSE e.id

\* Agreement::applies_at().
applies_at(agr) == agr.timestamp

(***************************************************************************)
(* LocalSet (set.rs): a HashMap<u64, V> keyed by the hash of the element's *)
(* identifier under the set's own hasher state.                            *)
(***************************************************************************)
\* The values a hash can take.
Hashes == MsgIds

\* A hasher state is the function it computes on identifiers.
HashStates == [MsgIds -> Hashes]

\* RandomState, the default hasher: SipHash under fresh random keys for every
\* set instance.  On the identifier universe it is taken to be collision-free;
\* different keys give different hashes, hence different iteration orders.
RandomStates == {st \in HashStates : \A i, j \in MsgIds : st[i] = st[j] => i = j}

\* The hasher state the input sets of the model carry.
IdHash == [i \in MsgIds |-> i]

\* LocalSet::with_hasher.
LSNew(st) == [data |-> <<>>, state |-> st]

\* LocalSet::get.
LSGet(s, id) ==
    LET hash == s.state[id]
    IN  IF hash \in DOMAIN s.data THEN s.data[hash] ELSE None

\* LocalSet::contains.
LSContains(s, id) == LSGet(s, id) # None

\* LocalSet::len.
LSLen(s) == Cardinality(DOMAIN s.data)

\* LocalSet::add: the set after the call.
LSAdd(s, elem) ==
    LET hash == s.state[IdOf(elem)]
    IN  [s EXCEPT !.data = (hash :> elem) @@ s.data]

\* LocalSet::add: the value returned, the element previously under that hash.
LSAddOld(s, elem) ==
    LET hash == s.state[IdOf(elem)]
    IN  IF hash \in DOMAIN s.data THEN s.data[hash] ELSE None

\* LocalSet::remove: the set after the call.
LSRemove(s, id) ==
    LET hash == s.state[id]
    IN  [s EXCEPT !.data = [h \in (DOMAIN s.data) \ {hash} |-> s.data[h]]]

\* IntoIterator for &LocalSet: the values of the hash map, in the order of
\* the map's keys.
LSIter(s) ==
    LET D == DOMAIN s.data
        rank(h) == Cardinality({k \in D : k < h}) + 1
    IN  [i \in 1..Cardinality(D) |-> s.data[CHOOSE h \in D : rank(h) = i]]

\* The elements of a set, without order.
LSElems(s) == {s.data[h] : h \in DOMAIN s.data}

\* FromIterator for LocalSet: insert the elements one by one under a fresh
\* hasher state.
RECURSIVE LSExtend(_, _)
LSExtend(s, seq) ==
    IF seq = <<>> THEN s ELSE LSExtend(LSAdd(s, Head(seq)), Tail(seq))

LSFromIter(seq, st) == LSExtend(LSNew(st), seq)

(***************************************************************************)
(* Policy extraction (policy.rs).  The extractor and the policy are type   *)
(* parameters of the audit; the model fixes one policy language.           *)
(***************************************************************************)
\* Extractor::extract: a syntax error if and only if the combined payloads do
\* not make a syntactically correct policy; otherwise the policy, here the set
\* of payloads it was made of.
Extract(set) ==
    LET payloads == {m.payload : m \in LSElems(set)}
    IN  IF "syn" \in payloads
        THEN [ok |-> FALSE, err |-> "SyntaxError"]
        ELSE [ok |-> TRUE, policy |-> payloads]

\* Policy::assert_validity: an error explaining why the policy is not valid.
assert_validity(policy) ==
    IF "inv" \in policy
    THEN [ok |-> FALSE, expl |-> "SemanticError"]
    ELSE [ok |-> TRUE]

(***************************************************************************)
(* Action and its audit (statements.rs).                                   *)
(***************************************************************************)
VARIABLES
    agreed,     \* Agreements::agreed(): the LocalSet of agreements the auditor sees
    stated,     \* Statements::stated(): the LocalSet of stated messages it sees
    action,     \* the Action under audit: basis, just, enacts, timestamp
    verdict,    \* what the last call of Action::audit returned
    just,       \* what the last call of Action::justification returned
    view,       \* a View (actors.rs): its agreed, stated and enacted stores
    found,      \* what the last call of View::get_statement returned
    listed,     \* what the last call of View::statements returned
    lhs,        \* the messages a first MessageSet is built from
    rhs,        \* the messages a second MessageSet is built from
    compared,   \* the two MessageSets built, their comparison and their hashes
    coll,       \* a collection that implements MapSync or SetSync
    added,      \* the last call of add on the collection and what it returned
    maps,       \* a Vec and a HashMap used as maps, changed by the same calls
    mapop,      \* the last call on the two maps and what each returned
    lset,       \* a LocalSet under a hasher state of the caller's choice
    lsop,       \* the last call on the LocalSet and what it returned
    local,      \* the local view of every agent: agreed, stated, enacted
    outcome     \* the last call an agent made through its view and its result

vars == <<agreed, stated, action, verdict, just, view, found, listed,
          lhs, rhs, compared, coll, added, maps, mapop, lset, lsop,
          local, outcome>>

\* The variables of the audit, of the View, of the MessageSets and of the
\* collection.
auditVars == <<agreed, stated, action, verdict, just>>
viewVars == <<view, found, listed>>
setVars == <<lhs, rhs, compared>>
collVars == <<coll, added>>
mapVars == <<maps, mapop>>
localVars == <<lset, lsop>>
agentVars == <<local, outcome>>

\* No call has returned yet.
NoVerdict == [kind |-> "None"]

\* Result<(), AuditExplanation>.
AuditOk == [kind |-> "Ok"]
Stated(id) == [kind |-> "Stated", stmt |-> id]
ExtractErr(err) == [kind |-> "Extract", err |-> err]
Valid(expl) == [kind |-> "Valid", expl |-> expl]
Based(id) == [kind |-> "Based", stmt |-> id]
Timely(id, at, taken) ==
    [kind |-> "Timely", stmt |-> id, applies_at |-> at, taken_at |-> taken]

\* A justification that adds the enacted statement before the basis message.
justification_BasisLast(act, st) ==
    LET collected == LSFromIter(LSIter(act.just), st)
        withEnacts == LSAdd(collected, act.enacts)
    IN  LSAdd(withEnacts, act.basis.msg)

\* A justification made of the just set and the enacted statement only.
justification_NoBasis(act, st) ==
    LET collected == LSFromIter(LSIter(act.just), st)
    IN  LSAdd(collected, act.enacts)

\* Action::justification: the just set collected into a new set (hasher state
\* st), then the basis message, then the enacted statement.
justification(act, st) ==
    LET collected == LSFromIter(LSIter(act.just), st)
        withBasis == LSAdd(collected, act.basis.msg)
    IN  LSAdd(withBasis, act.enacts)

\* A property 3 that looks a message up among the stated messages only.
FirstUnstated_StatedOnly(iter, agrs, stmts) ==
    LET bad == {i \in DOMAIN iter : ~LSContains(stmts, iter[i].id)}
    IN  IF bad = {} THEN 0 ELSE CHOOSE i \in bad : \A j \in bad : i <= j

\* A property 3 that wants a message both agreed and stated.
FirstUnstated_Both(iter, agrs, stmts) ==
    LET bad == {i \in DOMAIN iter :
                   \/ ~LSContains(agrs, iter[i].id)
                   \/ ~LSContains(stmts, iter[i].id)}
    IN  IF bad = {} THEN 0 ELSE CHOOSE i \in bad : \A j \in bad : i <= j

\* Property 3: the first message of the justification, in iteration order,
\* that is neither agreed nor stated (0 if there is none).
FirstUnstated(iter, agrs, stmts) ==
    LET bad == {i \in DOMAIN iter :
                   /\ ~LSContains(agrs, iter[i].id)
                   /\ ~LSContains(stmts, iter[i].id)}
    IN  IF bad = {} THEN 0 ELSE CHOOSE i \in bad : \A j \in bad : i <= j

\* An audit without the timestamp comparison.
AuditOf_NoTimely(act, jset, stmts, agrs) ==
    LET iter == LSIter(jset)
        first == FirstUnstated(iter, agrs, stmts)
        extracted == Extract(jset)
    IN  IF first # 0 THEN Stated(iter[first].id)
        ELSE IF ~extracted.ok THEN ExtractErr(extracted.err)
        ELSE IF ~assert_validity(extracted.policy).ok
            THEN Valid(assert_validity(extracted.policy).expl)
        ELSE IF ~LSContains(agrs, IdOf(act.basis)) THEN Based(act.basis.msg.id)
        ELSE AuditOk

\* An audit that compares the timestamps before anything else.
AuditOf_TimelyFirst(act, jset, stmts, agrs) ==
    LET iter == LSIter(jset)
        first == FirstUnstated(iter, agrs, stmts)
        extracted == Extract(jset)
    IN  IF applies_at(act.basis) # act.timestamp
            THEN Timely(act.basis.msg.id, act.basis.timestamp, act.timestamp)
        ELSE IF first # 0 THEN Stated(iter[first].id)
        ELSE IF ~extracted.ok THEN ExtractErr(extracted.err)
        ELSE IF ~assert_validity(extracted.policy).ok
            THEN Valid(assert_validity(extracted.policy).expl)
        ELSE IF ~LSContains(agrs, IdOf(act.basis)) THEN Based(act.basis.msg.id)
        ELSE AuditOk

\* An audit that reports the two timestamps of Timely the wrong way round.
AuditOf_SwappedTimes(act, jset, stmts, agrs) ==
    LET iter == LSIter(jset)
        first == FirstUnstated(iter, agrs, stmts)
        extracted == Extract(jset)
    IN  IF first # 0 THEN Stated(iter[first].id)
        ELSE IF ~extracted.ok THEN ExtractErr(extracted.err)
        ELSE IF ~assert_validity(extracted.policy).ok
            THEN Valid(assert_validity(extracted.policy).expl)
        ELSE IF ~LSContains(agrs, IdOf(act.basis)) THEN Based(act.basis.msg.id)
        ELSE IF applies_at(act.basis) # act.timestamp
            THEN Timely(act.basis.msg.id, act.timestamp, act.basis.timestamp)
        ELSE AuditOk

\* An audit that does not look the basis up among the agreements.
AuditOf_NoBased(act, jset, stmts, agrs) ==
    LET iter == LSIter(jset)
        first == FirstUnstated(iter, agrs, stmts)
        extracted == Extract(jset)
    IN  IF first # 0 THEN Stated(iter[first].id)
        ELSE IF ~extracted.ok THEN ExtractErr(extracted.err)
        ELSE IF ~assert_validity(extracted.policy).ok
            THEN Valid(assert_validity(extracted.policy).expl)
        ELSE IF applies_at(act.basis) # act.timestamp
            THEN Timely(act.basis.msg.id, act.basis.timestamp, act.timestamp)
        ELSE AuditOk

\* An audit that extracts the policy before it checks what was stated.
AuditOf_ExtractFirst(act, jset, stmts, agrs) ==
    LET iter == LSIter(jset)
        first == FirstUnstated(iter, agrs, stmts)
        extracted == Extract(jset)
    IN  IF ~extracted.ok THEN ExtractErr(extracted.err)
        ELSE IF ~assert_validity(extracted.policy).ok
            THEN Valid(assert_validity(extracted.policy).expl)
        ELSE IF first # 0 THEN Stated(iter[first].id)
        ELSE IF ~LSContains(agrs, IdOf(act.basis)) THEN Based(act.basis.msg.id)
        ELSE IF applies_at(act.basis) # act.timestamp
            THEN Timely(act.basis.msg.id, act.basis.timestamp, act.timestamp)
        ELSE AuditOk

\* Action::audit, from the justification on.
AuditOf(act, jset, stmts, agrs) ==
    LET iter == LSIter(jset)
        first == FirstUnstated(iter, agrs, stmts)
        extracted == Extract(jset)
    IN  IF first # 0 THEN Stated(iter[first].id)
        ELSE IF ~extracted.ok THEN ExtractErr(extracted.err)
        ELSE IF ~assert_validity(extracted.policy).ok
            THEN Valid(assert_validity(extracted.policy).expl)
        ELSE IF ~LSContains(agrs, IdOf(act.basis)) THEN Based(act.basis.msg.id)
        ELSE IF applies_at(act.basis) # act.timestamp
            THEN Timely(act.basis.msg.id, act.basis.timestamp, act.timestamp)
        ELSE AuditOk

\* Action::audit under the hasher state st that the justification is built
\* with.
audit(act, stmts, agrs, st) == AuditOf(act, justification(act, st), stmts, agrs)

(***************************************************************************)
(* Inputs.                                                                 *)
(***************************************************************************)
\* The sets of E in which no two elements share an identifier.
UniqueIdSubsets(E) ==
    {S \in SUBSET E : \A a, b \in S : IdOf(a) = IdOf(b) => a = b}

\* The LocalSet holding the elements of S.
LSOf(S) == LSFromIter(
    [i \in 1..Cardinality(S) |->
        CHOOSE e \in S : Cardinality({f \in S : IdOf(f) < IdOf(e)}) = i - 1],
    IdHash)

LocalSetsOver(E) == {LSOf(S) : S \in UniqueIdSubsets(E)}

\* What the auditor's view holds: the audit looks the view up by identifier
\* only, so the view's messages all carry the payload "ok" and its agreements
\* the first timestamp.
ViewMessages == {m \in Messages : m.payload = "ok"}
ViewAgreements == {a \in Agreements : a.msg \in ViewMessages /\ a.timestamp = 5}

\* The actions audited: a basis whose message carries the payload "ok", a
\* just set of well-formed messages, any enacted statement, any timestamp.
JustMessages == {m \in Messages : m.payload # "syn"}

Actions ==
    [basis : {a \in Agreements : a.msg \in ViewMessages},
     just : LocalSetsOver(JustMessages),
     enacts : Messages,
     timestamp : Times]

NoJust == [kind |-> "None"]

\* A View with empty stores, none of which fails.
EmptyView == [agreed |-> <<>>, stated |-> <<>>, enacted |-> <<>>, failing |-> {}]

\* No call of get_statement has returned yet.
NotCalled == [kind |-> "None"]

\* The View, the MessageSets and the collection while they are not looked at.
IdleView == view = EmptyView /\ found = NotCalled /\ listed = NotCalled

IdleSets == lhs = <<>> /\ rhs = <<>> /\ compared = NotCalled

IdleColl == coll = [kind |-> "None"] /\ added = NotCalled

\* The two maps, the LocalSet and the agents while they are not looked at.
IdleMaps == maps = [kind |-> "None"] /\ mapop = NotCalled

IdleLocal == lset = [kind |-> "None"] /\ lsop = NotCalled

IdleAgents == local = [kind |-> "None"] /\ outcome = NotCalled

(***************************************************************************)
(* The audit of one action against one view.                               *)
(***************************************************************************)
Init ==
    /\ agreed \in LocalSetsOver(ViewAgreements)
    /\ stated \in LocalSetsOver(ViewMessages)
    /\ action \in Actions
    /\ verdict = NoVerdict
    /\ just = NoJust
    /\ IdleView
    /\ IdleSets
    /\ IdleColl
    /\ IdleMaps
    /\ IdleLocal
    /\ IdleAgents

\* One call of Action::audit.
Audit ==
    /\ \E st \in RandomStates : verdict' = audit(action, stated, agreed, st)
    /\ UNCHANGED <<agreed, stated, action, just, viewVars, setVars, collVars, mapVars, localVars, agentVars>>

Next == Audit

Spec == Init /\ [][Next]_vars

(***************************************************************************)
(* Action::justification on its own.                                       *)
(***************************************************************************)
AllActions ==
    [basis : Agreements,
     just : LocalSetsOver(Messages),
     enacts : Messages,
     timestamp : Times]

InitJust ==
    /\ agreed = LSNew(IdHash)
    /\ stated = LSNew(IdHash)
    /\ action \in AllActions
    /\ verdict = NoVerdict
    /\ just = NoJust
    /\ IdleView
    /\ IdleSets
    /\ IdleColl
    /\ IdleMaps
    /\ IdleLocal
    /\ IdleAgents

\* One call of Action::justification.
Justification ==
    /\ \E st \in RandomStates : just' = justification(action, st)
    /\ UNCHANGED <<agreed, stated, action, verdict, viewVars, setVars, collVars, mapVars, localVars, agentVars>>

NextJust == Justification

SpecJust == InitJust /\ [][NextJust]_vars

(***************************************************************************)
(* Part II.  The View (actors.rs) over stores that implement Map           *)
(* (collections/map.rs).                                                   *)
(***************************************************************************)
\* The contents a message of the View can have: two versions per identifier.
Versions == {m \in Messages : m.payload # "syn"}

\* Agreement of this revision: the agreed message and when it applies.
ViewAgreement == [message : Versions, timestamp : {5}]

\* Identifiable::id() for the elements of the View's stores.
KeyOf(e) == IF "message" \in DOMAIN e THEN e.message.id ELSE e.id

\* The stores of a View, as the errors of the View name them.
Stores == {"Agreements", "Statements", "Enactments"}

\* Result<_, _>.
Ok(v) == [kind |-> "Ok", value |-> v]
Err(e) == [kind |-> "Err", error |-> e]

\* Map::get for Vec: the first element with the identifier.
VecGet(vec, id) ==
    LET hits == {i \in DOMAIN vec : KeyOf(vec[i]) = id}
    IN  IF hits = {} THEN None ELSE vec[CHOOSE i \in hits : \A j \in hits : i <= j]

\* The error of a store that fails.
StoreError(name) == [store |-> name]

\* Map::get of a store of the View: the store's own error if it fails.
StoreGet(v, name, vec, id) ==
    IF name \in v.failing THEN Err(StoreError(name)) ELSE Ok(VecGet(vec, id))

\* Map::iter of a store of the View.
StoreIter(v, name, vec) ==
    IF name \in v.failing THEN Err(StoreError(name)) ELSE Ok(vec)

\* Error::StatementGet.
StatementGet(id, err) == [variant |-> "StatementGet", id |-> id, err |-> err]

\* The loop of get_statement over the enacted actions: for each action the
\* basis first, then the extras in the iteration order of their hash set.
\* The set of messages the loop can return ({None} if it finds nothing).
RECURSIVE SearchEnacted(_, _)
SearchEnacted(acts, id) ==
    IF acts = <<>> THEN {None}
    ELSE LET act == Head(acts)
             extras == {m \in act.extra : m.id = id}
         IN  IF act.basis.message.id = id THEN {act.basis.message}
             ELSE IF extras # {} THEN extras
             ELSE SearchEnacted(Tail(acts), id)

\* A get_statement that asks the stated store before the agreed one.
get_statement_StatedFirst(v, id) ==
    LET a == StoreGet(v, "Agreements", v.agreed, id)
        s == StoreGet(v, "Statements", v.stated, id)
        e == StoreIter(v, "Enactments", v.enacted)
    IN  IF s.kind = "Err" THEN {Err(StatementGet(id, s.error))}
        ELSE IF s.value # None THEN {Ok(s.value)}
        ELSE IF a.kind = "Err" THEN {Err(StatementGet(id, a.error))}
        ELSE IF a.value # None THEN {Ok(a.value.message)}
        ELSE IF e.kind = "Err" THEN {Err(StatementGet(id, e.error))}
        ELSE {Ok(m) : m \in SearchEnacted(e.value, id)}

\* A get_statement that reports a message it does not find as an error.
get_statement_AbsentIsError(v, id) ==
    LET a == StoreGet(v, "Agreements", v.agreed, id)
        s == StoreGet(v, "Statements", v.stated, id)
        e == StoreIter(v, "Enactments", v.enacted)
    IN  IF a.kind = "Err" THEN {Err(StatementGet(id, a.error))}
        ELSE IF a.value # None THEN {Ok(a.value.message)}
        ELSE IF s.kind = "Err" THEN {Err(StatementGet(id, s.error))}
        ELSE IF s.value # None THEN {Ok(s.value)}
        ELSE IF e.kind = "Err" THEN {Err(StatementGet(id, e.error))}
        ELSE {IF m = None THEN Err(StatementGet(id, StoreError("Enactments")))
                          ELSE Ok(m) : m \in SearchEnacted(e.value, id)}

\* A get_statement that blames the agreed store for an error of the stated
\* one.
get_statement_WrongStore(v, id) ==
    LET a == StoreGet(v, "Agreements", v.agreed, id)
        s == StoreGet(v, "Statements", v.stated, id)
        e == StoreIter(v, "Enactments", v.enacted)
    IN  IF a.kind = "Err" THEN {Err(StatementGet(id, a.error))}
        ELSE IF a.value # None THEN {Ok(a.value.message)}
        ELSE IF s.kind = "Err" THEN {Err(StatementGet(id, StoreError("Agreements")))}
        ELSE IF s.value # None THEN {Ok(s.value)}
        ELSE IF e.kind = "Err" THEN {Err(StatementGet(id, e.error))}
        ELSE {Ok(m) : m \in SearchEnacted(e.value, id)}

\* View::get_statement: the results a call can return.
get_statement(v, id) ==
    LET a == StoreGet(v, "Agreements", v.agreed, id)
        s == StoreGet(v, "Statements", v.stated, id)
        e == StoreIter(v, "Enactments", v.enacted)
    IN  IF a.kind = "Err" THEN {Err(StatementGet(id, a.error))}
        ELSE IF a.value # None THEN {Ok(a.value.message)}
        ELSE IF s.kind = "Err" THEN {Err(StatementGet(id, s.error))}
        ELSE IF s.value # None THEN {Ok(s.value)}
        ELSE IF e.kind = "Err" THEN {Err(StatementGet(id, e.error))}
        ELSE {Ok(m) : m \in SearchEnacted(e.value, id)}

\* The Vec holding the elements of S in the order of their identifiers.
VecOf(S) ==
    [i \in 1..Cardinality(S) |->
        CHOOSE e \in S : Cardinality({f \in S : KeyOf(f) < KeyOf(e)}) = i - 1]

\* The Vecs a store filled through MapSync::add can be: no two elements share
\* an identifier.
VecsOver(E) ==
    {VecOf(S) : S \in {T \in SUBSET E : \A a, b \in T : KeyOf(a) = KeyOf(b) => a = b}}

\* The enacted actions of the Views: a basis and at most one extra message.
EnactedActions ==
    [basis : ViewAgreement, extra : {{}} \cup {{m} : m \in Versions}]

\* The Views looked into: no or one enacted action, any set of failing stores.
Views ==
    [agreed : VecsOver(ViewAgreement),
     stated : VecsOver(Versions),
     enacted : {<<>>} \cup {<<a>> : a \in EnactedActions},
     failing : SUBSET Stores]

\* The action of the audit variables while the View is looked into.
IdleAction ==
    [basis |-> [msg |-> [id |-> 1, payload |-> "ok"], timestamp |-> 5],
     just |-> LSNew(IdHash),
     enacts |-> [id |-> 1, payload |-> "ok"],
     timestamp |-> 5]

InitView ==
    /\ agreed = LSNew(IdHash)
    /\ stated = LSNew(IdHash)
    /\ action = IdleAction
    /\ verdict = NoVerdict
    /\ just = NoJust
    /\ view \in Views
    /\ found = NotCalled
    /\ listed = NotCalled
    /\ IdleSets
    /\ IdleColl
    /\ IdleMaps
    /\ IdleLocal
    /\ IdleAgents

\* One call of View::get_statement.
GetStatement ==
    /\ \E id \in MsgIds : \E r \in get_statement(view, id) :
           found' = [id |-> id, result |-> r]
    /\ UNCHANGED <<view, listed, auditVars, setVars, collVars, mapVars, localVars, agentVars>>

NextView == GetStatement

SpecView == InitView /\ [][NextView]_vars

(***************************************************************************)
(* View::statements (actors.rs).                                           *)
(***************************************************************************)
\* The orders in which the elements of a set can come.
Perms(S) ==
    {p \in [1..Cardinality(S) -> S] : \A i, j \in 1..Cardinality(S) : p[i] = p[j] => i = j}

\* The message in which the actor of an action declares itself.  Its
\* identifier is none that is asked for.
ActorDecl == [id |-> 0, payload |-> "ok"]

\* Action::payload: the basis, the extra messages and the actor's declaration,
\* as a MessageSet.
payload(act) == {act.basis.message} \cup act.extra \cup {ActorDecl}

\* Error::StatementsIter.
StatementsIter(err) == [variant |-> "StatementsIter", err |-> err]

\* flat_map over the enacted actions: the payload of each, in the order of
\* the actions; a payload is a hash set and comes in any order.
RECURSIVE PayloadsOf(_)
PayloadsOf(acts) ==
    IF acts = <<>> THEN {<<>>}
    ELSE {p \o rest : p \in Perms(payload(Head(acts))), rest \in PayloadsOf(Tail(acts))}

\* The messages of a sequence of agreements.
MessagesOf(agrs) == [i \in DOMAIN agrs |-> agrs[i].message]

\* The messages of a sequence, each once.
RECURSIVE Dedup(_)
Dedup(seq) ==
    IF seq = <<>> THEN <<>>
    ELSE LET front == Dedup(SubSeq(seq, 1, Len(seq) - 1))
             last == seq[Len(seq)]
         IN  IF \E i \in DOMAIN front : front[i] = last THEN front ELSE Append(front, last)

\* A statements that yields every message once.
statements_Dedup(v) ==
    LET a == StoreIter(v, "Agreements", v.agreed)
        s == StoreIter(v, "Statements", v.stated)
        e == StoreIter(v, "Enactments", v.enacted)
    IN  IF a.kind = "Err" THEN {Err(StatementsIter(a.error))}
        ELSE IF s.kind = "Err" THEN {Err(StatementsIter(s.error))}
        ELSE IF e.kind = "Err" THEN {Err(StatementsIter(e.error))}
        ELSE {Ok(Dedup(MessagesOf(a.value) \o s.value \o p)) : p \in PayloadsOf(e.value)}

\* A statements that asks the enacted store first.
statements_EnactedFirst(v) ==
    LET a == StoreIter(v, "Agreements", v.agreed)
        s == StoreIter(v, "Statements", v.stated)
        e == StoreIter(v, "Enactments", v.enacted)
    IN  IF e.kind = "Err" THEN {Err(StatementsIter(e.error))}
        ELSE IF s.kind = "Err" THEN {Err(StatementsIter(s.error))}
        ELSE IF a.kind = "Err" THEN {Err(StatementsIter(a.error))}
        ELSE {Ok(MessagesOf(a.value) \o s.value \o p) : p \in PayloadsOf(e.value)}

\* View::statements: the results a call can return, the iterator collected.
statements(v) ==
    LET a == StoreIter(v, "Agreements", v.agreed)
        s == StoreIter(v, "Statements", v.stated)
        e == StoreIter(v, "Enactments", v.enacted)
    IN  IF a.kind = "Err" THEN {Err(StatementsIter(a.error))}
        ELSE IF s.kind = "Err" THEN {Err(StatementsIter(s.error))}
        ELSE IF e.kind = "Err" THEN {Err(StatementsIter(e.error))}
        ELSE {Ok(MessagesOf(a.value) \o s.value \o p) : p \in PayloadsOf(e.value)}

\* One call of View::statements.
Statements ==
    /\ \E r \in statements(view) : listed' = [result |-> r]
    /\ UNCHANGED <<view, found, auditVars, setVars, collVars, mapVars, localVars, agentVars>>

NextList == Statements

SpecList == InitView /\ [][NextList]_vars

(***************************************************************************)
(* The two read paths of a View whose stores do not fail: statements, and  *)
(* get_statement for any identifier or for that of a message statements    *)
(* has yielded.                                                            *)
(***************************************************************************)
InitRead ==
    /\ agreed = LSNew(IdHash)
    /\ stated = LSNew(IdHash)
    /\ action = IdleAction
    /\ verdict = NoVerdict
    /\ just = NoJust
    /\ view \in {v \in Views : v.failing = {}}
    /\ found = NotCalled
    /\ listed = NotCalled
    /\ IdleSets
    /\ IdleColl
    /\ IdleMaps
    /\ IdleLocal
    /\ IdleAgents

\* get_statement is called with the identifier of a message that statements
\* has yielded.
Lookup ==
    /\ listed # NotCalled
    /\ listed.result.kind = "Ok"
    /\ \E k \in DOMAIN listed.result.value :
       \E r \in get_statement(view, listed.result.value[k].id) :
           found' = [id |-> listed.result.value[k].id, result |-> r]
    /\ UNCHANGED <<view, listed, auditVars, setVars, collVars, mapVars, localVars, agentVars>>

NextRead == Statements \/ GetStatement \/ Lookup

SpecRead == InitRead /\ [][NextRead]_vars

(***************************************************************************)
(* Part III.  MessageSet (messages.rs): a HashSet of messages, compared    *)
(* and hashed as a set.                                                    *)
(***************************************************************************)
\* The longest input a MessageSet is built from.
MaxElems == 3

\* The messages the sets are made of: they differ in their payload.
SetElems == [id : {1}, payload : Payloads]

\* The inputs: the finite sequences of messages.
ElemSeqs == UNION {[1..n -> SetElems] : n \in 0..MaxElems}

\* HashSet::insert, the set after the call: an element equal to one of the set
\* is not inserted again.
HSInsert(data, elem) ==
    IF \E i \in DOMAIN data : data[i] = elem THEN data ELSE Append(data, elem)

\* HashSet::insert, the value returned: whether the element was newly
\* inserted.
HSInserted(data, elem) == ~\E i \in DOMAIN data : data[i] = elem

\* Iterator::collect into a HashSet: the elements inserted one by one.
RECURSIVE HSCollect(_)
HSCollect(seq) ==
    IF seq = <<>> THEN <<>>
    ELSE HSInsert(HSCollect(SubSeq(seq, 1, Len(seq) - 1)), seq[Len(seq)])

\* The orders in which a HashSet under a fresh RandomState can hold its
\* elements: any.
Reorderings(data) ==
    {[i \in DOMAIN data |-> data[p[i]]] : p \in Perms(DOMAIN data)}

\* A construction that keeps every element of the input.
MSFrom_NoDedup(value) == {[data |-> d] : d \in Reorderings(value)}

\* From<I> for MessageSet: the sets the input can be collected into, each with
\* its elements in the order its iterator yields them.
MSFrom(value) == {[data |-> d] : d \in Reorderings(HSCollect(value))}

\* Vec::swap_remove.
SwapRemove(vec, i) ==
    [k \in 1..(Len(vec) - 1) |-> IF k = i THEN vec[Len(vec)] ELSE vec[k]]

\* The loop of eq: every element is looked for among those not yet crossed
\* out, and crossed out where it is found first.
RECURSIVE CrossOut(_, _)
CrossOut(elems, to_cross) ==
    IF elems = <<>> THEN TRUE
    ELSE LET hits == {i \in DOMAIN to_cross : to_cross[i] = Head(elems)}
         IN  IF hits = {} THEN FALSE
             ELSE CrossOut(Tail(elems),
                           SwapRemove(to_cross, CHOOSE i \in hits : \A j \in hits : i <= j))

\* PartialEq for MessageSet: the lengths are compared, then the elements of
\* self are crossed out of to_cross, which is collected from self.
MSEq(self, other) ==
    IF Len(self.data) # Len(other.data) THEN FALSE
    ELSE CrossOut(self.data, self.data)

\* The hash of one message under DefaultHasher::new(), whose keys are fixed.
ElemHash(m) ==
    3 * m.id + (CASE m.payload = "inv" -> 0 [] m.payload = "ok" -> 1 [] OTHER -> 2)

\* sort_by_key on the hash of the elements, a stable sort.
SortByKey(vec) ==
    LET key(m) == ElemHash(m)
        rank(i) == Cardinality({j \in DOMAIN vec :
                       \/ key(vec[j]) < key(vec[i])
                       \/ key(vec[j]) = key(vec[i]) /\ j < i}) + 1
    IN  [r \in DOMAIN vec |-> vec[CHOOSE i \in DOMAIN vec : rank(i) = r]]

\* A hash that feeds the elements in the order of the set's iterator.
MSHash_Unsorted(self) == <<Len(self.data)>> \o self.data

\* Hash for MessageSet: the elements sorted by their own hash, then hashed as
\* a Vec; what is fed to the hasher, the length first.
MSHash(self) ==
    LET elems == SortByKey(self.data)
    IN  <<Len(elems)>> \o elems

InitSets ==
    /\ agreed = LSNew(IdHash)
    /\ stated = LSNew(IdHash)
    /\ action = IdleAction
    /\ verdict = NoVerdict
    /\ just = NoJust
    /\ IdleView
    /\ lhs \in ElemSeqs
    /\ rhs \in ElemSeqs
    /\ compared = NotCalled
    /\ IdleColl
    /\ IdleMaps
    /\ IdleLocal
    /\ IdleAgents

\* Two MessageSets are built from the inputs, compared and hashed.
Compare ==
    /\ \E a \in MSFrom(lhs), b \in MSFrom(rhs) :
           compared' = [a |-> a, b |-> b, eq |-> MSEq(a, b),
                        hash_a |-> MSHash(a), hash_b |-> MSHash(b)]
    /\ UNCHANGED <<lhs, rhs, auditVars, viewVars, collVars, mapVars, localVars, agentVars>>

NextSets == Compare

SpecSets == InitSets /\ [][NextSets]_vars

(***************************************************************************)
(* Part IV.  The synchronized collections (collections/map.rs,             *)
(* collections/set.rs, messages.rs): MapSync::add and SetSync::add of the  *)
(* std types and of MessageSet.                                            *)
(***************************************************************************)
\* The collections that implement MapSync, and those that implement SetSync.
MapKinds == {"VecMap", "HashMap"}
SetKinds == {"VecSet", "HashSet", "MessageSet"}

\* Map::get for HashMap: a HashMap is the function from its keys to its values.
HashMapGet(map, id) == IF id \in DOMAIN map THEN map[id] ELSE None

\* Map::get and Map::len of a collection.
MapGet(c, id) ==
    IF c.kind = "VecMap" THEN VecGet(c.data, id) ELSE HashMapGet(c.data, id)

MapLen(c) ==
    IF c.kind = "VecMap" THEN Len(c.data) ELSE Cardinality(DOMAIN c.data)

\* The first of the indices at which the loop over a Vec finds what it looks
\* for (0 if there is none).
FirstIndex(hits) ==
    IF hits = {} THEN 0 ELSE CHOOSE i \in hits : \A j \in hits : i <= j

\* A MapSync::add for Vec that looks for an equal element where it should look
\* for one with the identifier.
VecMapAdd_ByValue(vec, new_elem) ==
    LET i == FirstIndex({k \in DOMAIN vec : vec[k] = new_elem})
    IN  IF i # 0 THEN [vec EXCEPT ![i] = new_elem] ELSE Append(vec, new_elem)

\* A MapSync::add for Vec that takes the old element out and does not put the
\* new one in its place.
VecMapAdd_TakeOld(vec, new_elem) ==
    LET i == FirstIndex({k \in DOMAIN vec : KeyOf(vec[k]) = KeyOf(new_elem)})
    IN  IF i # 0 THEN SwapRemove(vec, i) ELSE Append(vec, new_elem)

\* A MapSync::add for Vec that pushes the element whatever the Vec holds.
VecMapAdd_PushAlways(vec, new_elem) == Append(vec, new_elem)

\* MapSync::add for Vec, the Vec after the call: the element takes the place
\* of the first one with its identifier, or is pushed.
VecMapAdd(vec, new_elem) ==
    LET i == FirstIndex({k \in DOMAIN vec : KeyOf(vec[k]) = KeyOf(new_elem)})
    IN  IF i # 0 THEN [vec EXCEPT ![i] = new_elem] ELSE Append(vec, new_elem)

\* MapSync::add for Vec, the value returned.
VecMapAddOld(vec, new_elem) ==
    LET i == FirstIndex({k \in DOMAIN vec : KeyOf(vec[k]) = KeyOf(new_elem)})
    IN  IF i # 0 THEN vec[i] ELSE None

\* A MapSync::add for HashMap that keeps the element it already holds.
HashMapAdd_KeepOld(map, elem) == map @@ (KeyOf(elem) :> elem)

\* MapSync::add for HashMap: HashMap::insert under the element's identifier.
HashMapAdd(map, elem) == (KeyOf(elem) :> elem) @@ map

HashMapAddOld(map, elem) == HashMapGet(map, KeyOf(elem))

\* MapSync::add of a collection: the collection after the call and the
\* result returned.
MapSyncAdd(c, elem) ==
    IF c.kind = "VecMap"
    THEN [coll |-> [c EXCEPT !.data = VecMapAdd(c.data, elem)],
          returned |-> Ok(VecMapAddOld(c.data, elem))]
    ELSE [coll |-> [c EXCEPT !.data = HashMapAdd(c.data, elem)],
          returned |-> Ok(HashMapAddOld(c.data, elem))]

\* SetSync::add for Vec, the Vec after the call: the element is swapped with
\* the first one equal to it, or is pushed.
VecSetAdd(vec, new_elem) ==
    LET i == FirstIndex({k \in DOMAIN vec : vec[k] = new_elem})
    IN  IF i # 0 THEN [vec EXCEPT ![i] = new_elem] ELSE Append(vec, new_elem)

\* SetSync::add for Vec, the value returned.
VecSetAddReturned(vec, new_elem) ==
    FirstIndex({k \in DOMAIN vec : vec[k] = new_elem}) # 0

\* SetSync::add of a collection: for Vec its own loop, for HashSet and for
\* MessageSet what HashSet::insert does and returns.
SetSyncAdd(c, elem) ==
    IF c.kind = "VecSet"
    THEN [coll |-> [c EXCEPT !.data = VecSetAdd(c.data, elem)],
          returned |-> Ok(VecSetAddReturned(c.data, elem))]
    ELSE [coll |-> [c EXCEPT !.data = HSInsert(c.data, elem)],
          returned |-> Ok(HSInserted(c.data, elem))]

\* Vec::new, HashMap::new, HashSet::new, MessageSet::new.
NewColl(kind) == [kind |-> kind, data |-> <<>>]

InitColl ==
    /\ agreed = LSNew(IdHash)
    /\ stated = LSNew(IdHash)
    /\ action = IdleAction
    /\ verdict = NoVerdict
    /\ just = NoJust
    /\ IdleView
    /\ IdleSets
    /\ coll \in {NewColl(kind) : kind \in MapKinds \cup SetKinds}
    /\ added = NotCalled
    /\ IdleMaps
    /\ IdleLocal
    /\ IdleAgents

\* One call of MapSync::add.
MapAdd ==
    /\ coll.kind \in MapKinds
    /\ \E elem \in Versions :
           LET r == MapSyncAdd(coll, elem)
           IN  /\ coll' = r.coll
               /\ added' = [before |-> coll, elem |-> elem, returned |-> r.returned]
    /\ UNCHANGED <<auditVars, viewVars, setVars, mapVars, localVars, agentVars>>

\* One call of SetSync::add.
SetAdd ==
    /\ coll.kind \in SetKinds
    /\ \E elem \in Versions :
           LET r == SetSyncAdd(coll, elem)
           IN  /\ coll' = r.coll
               /\ added' = [before |-> coll, elem |-> elem, returned |-> r.returned]
    /\ UNCHANGED <<auditVars, viewVars, setVars, mapVars, localVars, agentVars>>

NextColl == MapAdd \/ SetAdd

SpecColl == InitColl /\ [][NextColl]_vars

(***************************************************************************)
(* Part V.  A Vec and a HashMap as maps under add and remove               *)
(* (collections/map.rs; remove is MapMut::remove of collections.rs).       *)
(***************************************************************************)
\* MapMut::remove for Vec, the Vec after the call: the first element with the
\* identifier is swapped out.
VecMapRemove(vec, id) ==
    LET i == FirstIndex({k \in DOMAIN vec : KeyOf(vec[k]) = id})
    IN  IF i # 0 THEN SwapRemove(vec, i) ELSE vec

\* MapMut::remove for Vec, the value returned.
VecMapRemoveOld(vec, id) ==
    LET i == FirstIndex({k \in DOMAIN vec : KeyOf(vec[k]) = id})
    IN  IF i # 0 THEN vec[i] ELSE None

\* MapMut::remove for HashMap: HashMap::remove.
HashMapRemove(map, id) == [k \in (DOMAIN map) \ {id} |-> map[k]]

HashMapRemoveOld(map, id) == HashMapGet(map, id)

\* Map::contains_key and Map::is_empty, the provided methods.
contains_key(c, id) == MapGet(c, id) # None

is_empty(c) == MapLen(c) = 0

\* The two maps as collections.
TheVec == [kind |-> "VecMap", data |-> maps.vec]
TheHashMap == [kind |-> "HashMap", data |-> maps.map]

InitMaps ==
    /\ agreed = LSNew(IdHash)
    /\ stated = LSNew(IdHash)
    /\ action = IdleAction
    /\ verdict = NoVerdict
    /\ just = NoJust
    /\ IdleView
    /\ IdleSets
    /\ IdleColl
    /\ maps = [vec |-> <<>>, map |-> <<>>]
    /\ mapop = NotCalled
    /\ IdleLocal
    /\ IdleAgents

\* The same element is added to both maps.
BothAdd ==
    /\ \E elem \in Messages :
           /\ maps' = [vec |-> VecMapAdd(maps.vec, elem),
                       map |-> HashMapAdd(maps.map, elem)]
           /\ mapop' = [op |-> "add", arg |-> elem,
                        vec |-> Ok(VecMapAddOld(maps.vec, elem)),
                        map |-> Ok(HashMapAddOld(maps.map, elem))]
    /\ UNCHANGED <<auditVars, viewVars, setVars, collVars, localVars, agentVars>>

\* The same identifier is removed from both maps.
BothRemove ==
    /\ \E id \in MsgIds :
           /\ maps' = [vec |-> VecMapRemove(maps.vec, id),
                       map |-> HashMapRemove(maps.map, id)]
           /\ mapop' = [op |-> "remove", arg |-> id,
                        vec |-> Ok(VecMapRemoveOld(maps.vec, id)),
                        map |-> Ok(HashMapRemoveOld(maps.map, id))]
    /\ UNCHANGED <<auditVars, viewVars, setVars, collVars, localVars, agentVars>>

NextMaps == BothAdd \/ BothRemove

SpecMaps == InitMaps /\ [][NextMaps]_vars

(***************************************************************************)
(* Part VI.  A LocalSet (set.rs) under any hasher state, changed through   *)
(* add and remove.                                                         *)
(***************************************************************************)
\* LocalSet::remove: the value returned, the element under the hash of the
\* identifier.
LSRemoveOld(s, id) ==
    LET hash == s.state[id]
    IN  IF hash \in DOMAIN s.data THEN s.data[hash] ELSE None

InitLocal ==
    /\ agreed = LSNew(IdHash)
    /\ stated = LSNew(IdHash)
    /\ action = IdleAction
    /\ verdict = NoVerdict
    /\ just = NoJust
    /\ IdleView
    /\ IdleSets
    /\ IdleColl
    /\ IdleMaps
    /\ lset \in {LSNew(st) : st \in HashStates}
    /\ lsop = NotCalled
    /\ IdleAgents

\* One call of LocalSet::add.
LocalAdd ==
    /\ \E elem \in Versions :
           /\ lset' = LSAdd(lset, elem)
           /\ lsop' = [op |-> "add", arg |-> elem, returned |-> LSAddOld(lset, elem)]
    /\ UNCHANGED <<auditVars, viewVars, setVars, collVars, mapVars, agentVars>>

\* One call of LocalSet::remove.
LocalRemove ==
    /\ \E id \in MsgIds :
           /\ lset' = LSRemove(lset, id)
           /\ lsop' = [op |-> "remove", arg |-> id, returned |-> LSRemoveOld(lset, id)]
    /\ UNCHANGED <<auditVars, viewVars, setVars, collVars, mapVars, agentVars>>

NextLocal == LocalAdd \/ LocalRemove

SpecLocal == InitLocal /\ [][NextLocal]_vars

(***************************************************************************)
(* Part VII.  The mutating operations of a View: state, enact, gossip and  *)
(* agree, over the asynchronous stated and enacted stores and the          *)
(* synchronized agreed store of a set of agents.                           *)
(***************************************************************************)
AgentIds == {1, 2, 3}

\* Messages with their author.
AgentMessages == {[id |-> 1, author_id |-> 1], [id |-> 2, author_id |-> 2]}

\* Actions with their actor.
AgentActions == {[id |-> 1, actor_id |-> 1]}

\* The lists of agreements a synchronizer may install.
AgreementLists == SUBSET [id : {1}, timestamp : Times]

\* Recipient::All and Recipient::One(id).
All == [kind |-> "All"]
One(id) == [kind |-> "One", id |-> id]
Recipients == {All} \cup {One(a) : a \in AgentIds}

\* The agents a recipient selects.
Selected(selector) == IF selector = All THEN AgentIds ELSE {selector.id}

\* An asynchronous add that reaches every agent, whatever the selector.
MapAsyncAdd_Broadcast(store, selector, elem) ==
    [a \in AgentIds |-> store[a] \cup {elem}]

\* MapAsync::add: the element reaches the local view of the selected agents.
MapAsyncAdd(store, selector, elem) ==
    [a \in AgentIds |-> IF a \in Selected(selector) THEN store[a] \cup {elem} ELSE store[a]]

IllegalState == "IllegalState"
IllegalEnact == "IllegalEnact"
IllegalGossip == "IllegalGossip"

\* The view of one agent.
ViewOf(l, a) == [agreed |-> l.agreed[a], stated |-> l.stated[a], enacted |-> l.enacted[a]]

\* A state that accepts a message of any author.
state_AnyAuthor(l, caller, to, msg) ==
    [local  |-> [l EXCEPT !.stated = MapAsyncAdd(l.stated, to, msg),
                          !.statedBy = @ \cup {[by |-> caller, item |-> msg]}],
     result |-> Ok("()")]

\* state(msg): fails with IllegalState unless msg.author_id == view.id.
state(l, caller, to, msg) ==
    IF msg.author_id # caller
    THEN [local |-> l, result |-> Err(IllegalState)]
    ELSE [local  |-> [l EXCEPT !.stated = MapAsyncAdd(l.stated, to, msg),
                               !.statedBy = @ \cup {[by |-> caller, item |-> msg]}],
          result |-> Ok("()")]

\* enact(action): fails with IllegalEnact unless action.actor_id == view.id.
enact(l, caller, to, act) ==
    IF act.actor_id # caller
    THEN [local |-> l, result |-> Err(IllegalEnact)]
    ELSE [local  |-> [l EXCEPT !.enacted = MapAsyncAdd(l.enacted, to, act),
                               !.enactedBy = @ \cup {[by |-> caller, item |-> act]}],
          result |-> Ok("()")]

\* A gossip that forwards a message the agent does not hold.
gossip_Ungated(l, caller, to, msg) ==
    [local  |-> [l EXCEPT !.stated = MapAsyncAdd(l.stated, to, msg)],
     result |-> Ok("()")]

\* gossip(recipient, msg): fails with IllegalGossip unless the agent already
\* holds msg in its own stated set.
gossip(l, caller, to, msg) ==
    IF msg \notin l.stated[caller]
    THEN [local |-> l, result |-> Err(IllegalGossip)]
    ELSE [local  |-> [l EXCEPT !.stated = MapAsyncAdd(l.stated, to, msg)],
          result |-> Ok("()")]

\* agree(list): wholesale replace of the synchronized agreement store.
agree(l, list) ==
    [local  |-> [l EXCEPT !.agreed = [a \in AgentIds |-> list]],
     result |-> Ok("()")]

\* No agent has stated, enacted or agreed anything.
InitAgents ==
    /\ agreed = LSNew(IdHash)
    /\ stated = LSNew(IdHash)
    /\ action = IdleAction
    /\ verdict = NoVerdict
    /\ just = NoJust
    /\ IdleView
    /\ IdleSets
    /\ IdleColl
    /\ IdleMaps
    /\ IdleLocal
    /\ local = [kind      |-> "Views",
                agreed    |-> [a \in AgentIds |-> {}],
                stated    |-> [a \in AgentIds |-> {}],
                enacted   |-> [a \in AgentIds |-> {}],
                statedBy  |-> {},
                enactedBy |-> {}]
    /\ outcome = NotCalled

\* What one call leaves behind.
CallOf(op, caller, to, arg, r) ==
    /\ local' = r.local
    /\ outcome' = [kind |-> "Call", op |-> op, caller |-> caller, to |-> to,
                   arg |-> arg, result |-> r.result]
    /\ UNCHANGED <<auditVars, viewVars, setVars, collVars, mapVars, localVars>>

\* An agent states a message through its view.
State ==
    \E caller \in AgentIds, to \in Recipients, msg \in AgentMessages :
        CallOf("state", caller, to, msg, state(local, caller, to, msg))

\* An agent enacts an action through its view.
Enact ==
    \E caller \in AgentIds, to \in Recipients, act \in AgentActions :
        CallOf("enact", caller, to, act, enact(local, caller, to, act))

\* An agent gossips a message through its view.
Gossip ==
    \E caller \in AgentIds, to \in Recipients, msg \in AgentMessages :
        CallOf("gossip", caller, to, msg, gossip(local, caller, to, msg))

\* The synchronizer replaces the agreements.
Agree ==
    \E list \in AgreementLists :
        CallOf("agree", 0, All, list, agree(local, list))

NextAgents == State \/ Enact \/ Gossip \/ Agree

SpecAgents == InitAgents /\ [][NextAgents]_vars

(***************************************************************************)
(* What the claims speak of, stated on the inputs.                         *)
(***************************************************************************)
\* An agreement with this identifier is in the agreed set.
InAgreed(id) == \E a \in LSElems(agreed) : a.msg.id = id

\* A message with this identifier is in the stated set.
InStated(id) == \E m \in LSElems(stated) : m.id = id

\* The messages of the action's full justification, as justification() builds
\* it.
Built == LSElems(justification(action, IdHash))

\* The identifiers of the justification's messages found in neither set.
UnstatedIds == {m.id : m \in {n \in Built : ~InAgreed(n.id) /\ ~InStated(n.id)}}

AllStated == UnstatedIds = {}

\* The policy of the justification is syntactically correct.
Extractable == \A m \in Built : m.payload # "syn"

\* The policy of the justification is valid.
PolicyValid == \A m \in Built : m.payload # "inv"

BasisAgreed == InAgreed(action.basis.msg.id)

BasisTimely == action.basis.timestamp = action.timestamp

Audited == verdict # NoVerdict

(***************************************************************************)
(* C1..C8: Action::audit.                                                  *)
(***************************************************************************)
\* C1: audit returns success if and only if every message of the full
\* justification is agreed or stated, the policy can be extracted, the policy
\* is valid, the basis is in the agreed set and the basis applies at the
\* action's timestamp; otherwise it returns one of the five explanations.
C1_SuccessIffAllHold ==
    Audited =>
        /\ verdict.kind \in {"Ok", "Stated", "Extract", "Valid", "Based", "Timely"}
        /\ verdict = AuditOk <=>
            (AllStated /\ Extractable /\ PolicyValid /\ BasisAgreed /\ BasisTimely)

\* An audit of an action with a non-empty just set succeeded.
C1_Witness == verdict = AuditOk /\ LSLen(action.just) > 0

\* The premises of C2: the basis is an agreement of the agreed set for the
\* action's timestamp, every message of the just set is stated, and the policy
\* of the justification is extracted and valid.
C2_Premises ==
    /\ action.basis \in LSElems(agreed)
    /\ BasisTimely
    /\ \A m \in LSElems(action.just) : m \in LSElems(stated)
    /\ Extractable
    /\ PolicyValid

\* C2 as written: under the premises the audit succeeds, whatever the enacted
\* statement is.
C2_Original == (Audited /\ C2_Premises) => verdict = AuditOk

\* C2 as amended: under the premises the audit succeeds provided the enacted
\* statement is itself agreed or stated.
C2_SucceedsWhenEnactsStated ==
    (/\ Audited
     /\ C2_Premises
     /\ (InAgreed(action.enacts.id) \/ InStated(action.enacts.id)))
        => verdict = AuditOk

\* The scenario: a basis that is agreed but not stated, a stated extra message,
\* a stated enactment, and a successful audit.
C2_Witness ==
    /\ Audited
    /\ C2_Premises
    /\ LSLen(action.just) > 0
    /\ ~InStated(action.basis.msg.id)
    /\ InStated(action.enacts.id)
    /\ verdict = AuditOk

\* C3: the checks run in the order Stated, Extract, Valid, Based, Timely and
\* the first violated one is reported; an unstated message together with a
\* timestamp mismatch is reported as Stated.
C3_FirstViolationReported ==
    Audited =>
        /\ ~AllStated => verdict.kind = "Stated"
        /\ (AllStated /\ ~Extractable) => verdict.kind = "Extract"
        /\ (AllStated /\ Extractable /\ ~PolicyValid) => verdict.kind = "Valid"
        /\ (AllStated /\ Extractable /\ PolicyValid /\ ~BasisAgreed)
            => verdict.kind = "Based"
        /\ (AllStated /\ Extractable /\ PolicyValid /\ BasisAgreed /\ ~BasisTimely)
            => verdict.kind = "Timely"
        /\ (~AllStated /\ ~BasisTimely) => verdict.kind # "Timely"

\* An action that violates every property at once was reported as Stated.
C3_Witness ==
    /\ verdict.kind = "Stated"
    /\ ~Extractable
    /\ ~PolicyValid
    /\ ~BasisAgreed
    /\ ~BasisTimely

\* C4: when some message of the justification is neither agreed nor stated,
\* audit fails with Stated and the identifier of such a message, whatever the
\* policy and the timestamps.
C4_StatedNamesUnmatched ==
    (Audited /\ ~AllStated) =>
        /\ verdict.kind = "Stated"
        /\ verdict.stmt \in UnstatedIds

\* The scenario: the basis is agreed, the enactment is stated, and a message
\* of the just set that is in neither set is the one reported.
C4_Witness ==
    /\ verdict.kind = "Stated"
    /\ BasisAgreed
    /\ InStated(action.enacts.id)
    /\ verdict.stmt \notin {action.basis.msg.id, action.enacts.id}

\* C5: when all earlier checks pass and the basis's timestamp differs from the
\* action's, audit fails with Timely carrying the basis message's identifier,
\* the basis's timestamp as applies_at and the action's as taken_at.
C5_TimelyCarriesBothTimes ==
    (Audited /\ AllStated /\ Extractable /\ PolicyValid /\ BasisAgreed /\ ~BasisTimely)
        => verdict = [kind |-> "Timely",
                      stmt |-> action.basis.msg.id,
                      applies_at |-> action.basis.timestamp,
                      taken_at |-> action.timestamp]

\* The scenario: a basis for time 5, an action taken at 6.
C5_Witness ==
    /\ verdict.kind = "Timely"
    /\ verdict.applies_at = 5
    /\ verdict.taken_at = 6

\* C6: when the justification is stated and the policy extracted and valid,
\* audit fails with Based and the basis message's identifier whenever no
\* agreement with the basis's identifier is in the agreed set.
C6_BasedWhenBasisNotAgreed ==
    (Audited /\ AllStated /\ Extractable /\ PolicyValid /\ ~BasisAgreed)
        => verdict = [kind |-> "Based", stmt |-> action.basis.msg.id]

\* A Based verdict for a timely action.
C6_Witness == verdict.kind = "Based" /\ BasisTimely

\* C7: with every message stated or agreed, a syntax failure gives Extract
\* with the extractor's error, otherwise an invalid policy gives Valid with
\* the explanation; neither is reported when a message is unstated, and Valid
\* is never reported when the extraction failed.
C7_ExtractThenValid ==
    Audited =>
        /\ (AllStated /\ ~Extractable)
            => verdict = [kind |-> "Extract", err |-> "SyntaxError"]
        /\ (AllStated /\ Extractable /\ ~PolicyValid)
            => verdict = [kind |-> "Valid", expl |-> "SemanticError"]
        /\ ~AllStated => verdict.kind \notin {"Extract", "Valid"}
        /\ ~Extractable => verdict.kind # "Valid"

\* An Extract verdict for a justification that also holds an invalid fragment.
C7_Witness == verdict.kind = "Extract" /\ ~PolicyValid

\* C8: a repeated call of audit on the same view and action returns the same
\* verdict, with the same explanation and identifier, and no call changes the
\* agreed set, the stated set or the action.
C8_RepeatedAuditSameVerdict ==
    [][Audited => (verdict' = verdict /\ UNCHANGED <<agreed, stated, action>>)]_vars

(***************************************************************************)
(* C9: Action::justification.                                              *)
(***************************************************************************)
Justified == just # NoJust

Called == found # NotCalled

\* The elements of a store with the identifier.
Holding(vec, id) == {vec[i] : i \in {j \in DOMAIN vec : KeyOf(vec[j]) = id}}

\* The messages with the identifier in the bases, and in the extras, of the
\* enacted actions.
InBases(id) ==
    {view.enacted[i].basis.message :
        i \in {j \in DOMAIN view.enacted : view.enacted[j].basis.message.id = id}}

InExtras(id) ==
    {m \in UNION {view.enacted[i].extra : i \in DOMAIN view.enacted} : m.id = id}

\* C10: get_statement searches agreed, then stated, then the enacted actions,
\* the basis before the extras, and returns the first match: the agreed
\* version of a message that is also stated or enacted, the stated version of
\* one that is also enacted.  (Stated of the stores the search gets to read: a
\* store that fails ends the search, which is the matter of another claim.)
C10_AgreedThenStatedThenEnacted ==
    Called =>
        LET id == found.id
            inAgreed == Holding(view.agreed, id)
            inStated == Holding(view.stated, id)
            readsAgreed == "Agreements" \notin view.failing
            readsStated == readsAgreed /\ "Statements" \notin view.failing
            readsEnacted == readsStated /\ "Enactments" \notin view.failing
        IN  /\ (readsAgreed /\ inAgreed # {})
                => \E a \in inAgreed : found.result = Ok(a.message)
            /\ (readsStated /\ inAgreed = {} /\ inStated # {})
                => \E m \in inStated : found.result = Ok(m)
            /\ (readsEnacted /\ inAgreed = {} /\ inStated = {} /\ InBases(id) # {})
                => \E m \in InBases(id) : found.result = Ok(m)
            /\ (readsEnacted /\ inAgreed = {} /\ inStated = {} /\ InBases(id) = {}
                    /\ InExtras(id) # {})
                => \E m \in InExtras(id) : found.result = Ok(m)

\* A message whose agreed, stated and enacted versions differ was looked up
\* and the agreed version came back.
C10_Witness ==
    /\ Called
    /\ view.failing = {}
    /\ \E a \in Holding(view.agreed, found.id) :
       \E m \in Holding(view.stated, found.id) :
           /\ a.message # m
           /\ found.result = Ok(a.message)
           /\ InExtras(found.id) # {}

(***************************************************************************)
(* C11, C12: View::get_statement, absence and errors.                      *)
(***************************************************************************)
\* The identifier is nowhere in the View: not on an agreement, not on a stated
\* message, not on the basis or an extra message of an enacted action.
Absent(id) ==
    /\ Holding(view.agreed, id) = {}
    /\ Holding(view.stated, id) = {}
    /\ InBases(id) = {}
    /\ InExtras(id) = {}

\* C11: when no store errors, get_statement returns Ok(None) exactly when the
\* identifier is on no agreement, no stated message and no basis or extra
\* message of an enacted action, and it never returns an error.
C11_NoneIffAbsent ==
    (Called /\ view.failing = {}) =>
        /\ found.result.kind = "Ok"
        /\ found.result = Ok(None) <=> Absent(found.id)

\* A View that holds messages in all three stores was asked for an identifier
\* it does not hold, and answered Ok(None).
C11_Witness ==
    /\ Called
    /\ view.failing = {}
    /\ view.agreed # <<>> /\ view.stated # <<>> /\ view.enacted # <<>>
    /\ found.result = Ok(None)

\* The store whose error a call for the identifier runs into: the first, in
\* the order agreed, stated, enacted, that fails before a store ahead of it
\* has answered the call ("None" if there is none).
FailsAt(id) ==
    IF "Agreements" \in view.failing THEN "Agreements"
    ELSE IF Holding(view.agreed, id) # {} THEN "None"
    ELSE IF "Statements" \in view.failing THEN "Statements"
    ELSE IF Holding(view.stated, id) # {} THEN "None"
    ELSE IF "Enactments" \in view.failing THEN "Enactments"
    ELSE "None"

\* C12: get_statement fails with StatementGet when a store it asks errors,
\* and the error carries the identifier asked for and the variant of the store
\* that failed; it fails in no other case.
C12_StatementGetNamesStore ==
    Called =>
        /\ FailsAt(found.id) # "None"
            => found.result =
                   Err([variant |-> "StatementGet",
                        id |-> found.id,
                        err |-> [store |-> FailsAt(found.id)]])
        /\ FailsAt(found.id) = "None" => found.result.kind = "Ok"

\* The stated store failed on a call the agreed store had no answer to, while
\* the enacted store would have failed as well.
C12_Witness ==
    /\ Called
    /\ view.failing = {"Statements", "Enactments"}
    /\ view.agreed # <<>>
    /\ found.result.kind = "Err"
    /\ found.result.error.err = [store |-> "Statements"]

(***************************************************************************)
(* C13, C14: View::statements.                                             *)
(***************************************************************************)
Listed == listed # NotCalled

\* The number of times a value occurs in a sequence.
Occurrences(seq, m) == Cardinality({i \in DOMAIN seq : seq[i] = m})

\* The sizes of the payloads of the enacted actions, summed.
RECURSIVE PayloadSizes(_)
PayloadSizes(acts) ==
    IF acts = <<>> THEN 0
    ELSE Cardinality(payload(Head(acts))) + PayloadSizes(Tail(acts))

\* The number of sources a message is in: the agreements, the stated messages
\* and each payload.
Sources(m) ==
    Cardinality({i \in DOMAIN view.agreed : view.agreed[i].message = m})
    + Cardinality({i \in DOMAIN view.stated : view.stated[i] = m})
    + Cardinality({i \in DOMAIN view.enacted : m \in payload(view.enacted[i])})

\* C13: statements yields the message of every agreement, then every stated
\* message, then the payload of every enacted action, without deduplication:
\* a message is yielded once for every source it is in, and the number of
\* items is len(agreed) + len(stated) + the sum of the payload sizes.
C13_StatementsInOrderNoDedup ==
    (Listed /\ view.failing = {}) =>
        /\ listed.result.kind = "Ok"
        /\ LET items == listed.result.value
               na == Len(view.agreed)
               ns == Len(view.stated)
           IN  /\ Len(items) = na + ns + PayloadSizes(view.enacted)
               /\ \A i \in 1..na : items[i] = view.agreed[i].message
               /\ \A i \in 1..ns : items[na + i] = view.stated[i]
               /\ \A i \in 1..Len(view.enacted) :
                      LET before == na + ns + PayloadSizes(SubSeq(view.enacted, 1, i - 1))
                          size == Cardinality(payload(view.enacted[i]))
                      IN  {items[k] : k \in (before + 1)..(before + size)}
                              = payload(view.enacted[i])
               /\ \A k \in DOMAIN items : Occurrences(items, items[k]) = Sources(items[k])

\* A message that is agreed, stated and in the payload of an enacted action
\* was yielded three times.
C13_Witness ==
    /\ Listed
    /\ listed.result.kind = "Ok"
    /\ \E k \in DOMAIN listed.result.value :
           /\ Sources(listed.result.value[k]) = 3
           /\ Occurrences(listed.result.value, listed.result.value[k]) = 3

\* C14: statements fails with StatementsIter whenever a store fails to produce
\* its iterator, naming the first failing store in the order agreed, stated,
\* enacted; no items are yielded then.
C14_StatementsIterNamesFirst ==
    (Listed /\ view.failing # {}) =>
        LET first == IF "Agreements" \in view.failing THEN "Agreements"
                     ELSE IF "Statements" \in view.failing THEN "Statements"
                     ELSE "Enactments"
        IN  listed.result =
                Err([variant |-> "StatementsIter", err |-> [store |-> first]])

\* The stated and the enacted store both fail, the View holds messages, and
\* the error names the stated store.
C14_Witness ==
    /\ Listed
    /\ view.failing = {"Statements", "Enactments"}
    /\ view.agreed # <<>>
    /\ listed.result.kind = "Err"
    /\ listed.result.error.err = [store |-> "Statements"]

(***************************************************************************)
(* C15..C18: MessageSet, its equality and its hash.                        *)
(***************************************************************************)
Compared == compared # NotCalled

\* The elements of a sequence.
Range(seq) == {seq[i] : i \in DOMAIN seq}

\* One sequence is the other in a different order.
IsPermutation(p, q) ==
    /\ Len(p) = Len(q)
    /\ \E f \in Perms(DOMAIN p) : \A i \in DOMAIN p : q[i] = p[f[i]]

\* C15: two MessageSets compare equal if and only if they have the same size
\* and every element of the one is matched by an equal element of the other,
\* none matched twice; two sets of the same size that differ in an element
\* compare unequal.
C15_EqIffSameElements ==
    Compared =>
        (compared.eq <=>
            /\ Len(compared.a.data) = Len(compared.b.data)
            /\ Range(compared.a.data) = Range(compared.b.data))

\* C16: the MessageSets built from a sequence of messages and from a
\* permutation of it compare equal and have the same hash.
C16_OrderIndependent ==
    (Compared /\ IsPermutation(lhs, rhs)) =>
        /\ compared.eq
        /\ compared.hash_a = compared.hash_b

\* Three different messages, given in two different orders and held by the
\* two sets in two different orders.
C16_Witness ==
    /\ Compared
    /\ IsPermutation(lhs, rhs)
    /\ lhs # rhs
    /\ Cardinality(Range(lhs)) = 3
    /\ compared.a.data # compared.b.data
    /\ compared.hash_a = compared.hash_b

\* C17: a MessageSet built from an input in which a message comes several
\* times holds every distinct message once, and is equal to the MessageSet
\* built from the deduplicated input.
C17_DuplicatesCollapse ==
    (Compared /\ rhs = Dedup(lhs)) =>
        /\ Len(compared.a.data) = Cardinality(Range(lhs))
        /\ Range(compared.a.data) = Range(lhs)
        /\ compared.eq

\* The inputs (a, a, b) and (a, b).
C17_Witness ==
    /\ Compared
    /\ Len(lhs) = 3 /\ lhs[1] = lhs[2] /\ lhs[2] # lhs[3]
    /\ rhs = <<lhs[1], lhs[3]>>
    /\ Len(compared.a.data) = 2
    /\ compared.eq

\* C18: two MessageSets that compare equal have the same hash.
C18_EqualSetsHashEqually ==
    (Compared /\ compared.eq) => compared.hash_a = compared.hash_b

(***************************************************************************)
(* C19, C20: MapSync::add and SetSync::add.                                *)
(***************************************************************************)
Added == added # NotCalled

\* C19: for a Vec or a HashMap, MapSync::add never fails, returns the element
\* that was stored under the element's identifier (None if there was none),
\* afterwards get of that identifier returns the element, len has grown by one
\* exactly when the identifier was absent, and the entry of every other
\* identifier is unchanged.
C19_AddReplacesById ==
    (Added /\ coll.kind \in MapKinds) =>
        LET id == added.elem.id
            old == MapGet(added.before, id)
        IN  /\ added.returned = Ok(old)
            /\ MapGet(coll, id) = added.elem
            /\ MapLen(coll) = MapLen(added.before) + (IF old = None THEN 1 ELSE 0)
            /\ \A other \in MsgIds \ {id} : MapGet(coll, other) = MapGet(added.before, other)

\* A Vec of two elements in which the second was replaced by another version
\* of it, which add returned.
C19_Witness ==
    /\ Added
    /\ coll.kind = "VecMap"
    /\ Len(added.before.data) = 2
    /\ added.elem.id = added.before.data[2].id
    /\ added.elem # added.before.data[2]
    /\ added.returned = Ok(added.before.data[2])
    /\ coll.data[2] = added.elem

\* C20: SetSync::add returns true if and only if the element was in the set
\* before the call, for Vec, for HashSet and for MessageSet alike.
C20_AddReturnsExisted ==
    (Added /\ coll.kind \in SetKinds) =>
        added.returned = Ok(\E i \in DOMAIN added.before.data :
                               added.before.data[i] = added.elem)

(***************************************************************************)
(* C25, C26: Action::audit, the basis against the agreed set.              *)
(***************************************************************************)
\* C25: whenever audit succeeds, the agreement stored in the agreed set under
\* the basis's identifier applies at the action's timestamp: the timeliness
\* check is made against the agreement that was agreed, not only against the
\* copy of the basis embedded in the action.
C25_SuccessMeansAgreedTimely ==
    verdict = AuditOk =>
        /\ LSContains(agreed, action.basis.msg.id)
        /\ applies_at(LSGet(agreed, action.basis.msg.id)) = action.timestamp

\* C26: audit returns Based only for an action whose basis message is absent
\* from the agreed set and present in the stated set; an action whose basis
\* message is in neither set is rejected with Stated.
C26_BasedOnlyWhenBasisStated ==
    Audited =>
        /\ verdict.kind = "Based"
            => (~InAgreed(action.basis.msg.id) /\ InStated(action.basis.msg.id))
        /\ (~InAgreed(action.basis.msg.id) /\ ~InStated(action.basis.msg.id))
            => verdict.kind = "Stated"

\* A Based verdict for a basis that is stated, while another message is
\* agreed.
C26_Witness ==
    /\ verdict.kind = "Based"
    /\ InStated(action.basis.msg.id)
    /\ LSLen(agreed) > 0

(***************************************************************************)
(* C24: the stores grow under add.                                         *)
(***************************************************************************)
\* What get retrieves from a collection: the identifiers of a map, the
\* elements of a set.
Retrievable(c) ==
    IF c.kind \in MapKinds THEN {id \in MsgIds : MapGet(c, id) # None}
    ELSE {c.data[i] : i \in DOMAIN c.data}

\* Map::len, Set::len.
CollLen(c) == IF c.kind \in MapKinds THEN MapLen(c) ELSE Len(c.data)

\* C24: under any sequence of add operations on a store, what was once
\* retrievable with get stays retrievable and len never decreases.
C24_AddsOnlyGrow ==
    [][/\ Retrievable(coll) \subseteq Retrievable(coll')
       /\ CollLen(coll') >= CollLen(coll)]_vars

\* A Vec of two elements went through an add that replaced its first element
\* by another version of it.
C24_Witness ==
    /\ Added
    /\ coll.kind = "VecMap"
    /\ Len(added.before.data) = 2
    /\ Len(coll.data) = 2
    /\ coll.data[1] # added.before.data[1]

(***************************************************************************)
(* C29, C30: a Vec and a HashMap as maps.                                  *)
(***************************************************************************)
MapsCalled == mapop # NotCalled

\* C29: a Vec used as a map that starts empty and is changed only through add
\* and remove never holds two elements with the same identifier, so that len
\* is the number of identifiers stored.
C29_VecHoldsOnePerId ==
    MapsCalled =>
        /\ \A i, j \in DOMAIN maps.vec :
               KeyOf(maps.vec[i]) = KeyOf(maps.vec[j]) => i = j
        /\ MapLen(TheVec) = Cardinality({KeyOf(maps.vec[i]) : i \in DOMAIN maps.vec})

\* An add has replaced the second of two elements by another version of it.
C29_Witness ==
    /\ MapsCalled
    /\ mapop.op = "add"
    /\ Len(maps.vec) = 2
    /\ mapop.vec.value # None
    /\ mapop.vec.value # mapop.arg
    /\ maps.vec[2] = mapop.arg

\* C30: a Vec and a HashMap that start empty and go through the same calls of
\* add and remove return the same value from every call, and afterwards get,
\* contains_key, len and is_empty answer the same and iter yields the same
\* elements up to order.
C30_VecAndHashMapAgree ==
    MapsCalled =>
        /\ mapop.vec = mapop.map
        /\ \A id \in MsgIds :
               /\ MapGet(TheVec, id) = MapGet(TheHashMap, id)
               /\ contains_key(TheVec, id) = contains_key(TheHashMap, id)
        /\ MapLen(TheVec) = MapLen(TheHashMap)
        /\ is_empty(TheVec) = is_empty(TheHashMap)
        /\ {maps.vec[i] : i \in DOMAIN maps.vec} = {maps.map[k] : k \in DOMAIN maps.map}

\* The first of two elements was removed from both maps, which both returned
\* it and both hold the other one.
C30_Witness ==
    /\ MapsCalled
    /\ mapop.op = "remove"
    /\ mapop.vec.value # None
    /\ mapop.map.value # None
    /\ Len(maps.vec) = 1
    /\ maps.vec[1].id # mapop.arg

(***************************************************************************)
(* C28: LocalSet as a map keyed by identifier.                             *)
(***************************************************************************)
\* C28: for any hash function, after any sequence of add and remove, get
\* never returns an element whose identifier differs from the one asked for,
\* and add returns (replaces) only an element with the identifier of the one
\* added.
C28_LocalSetKeyedById ==
    lsop # NotCalled =>
        /\ \A id \in MsgIds :
               LSContains(lset, id) => LSGet(lset, id).id = id
        /\ (lsop.op = "add" /\ lsop.returned # None)
               => lsop.returned.id = lsop.arg.id

(***************************************************************************)
(* C27: the two read paths of a View.                                      *)
(***************************************************************************)
\* The messages statements has yielded.
Yielded == {listed.result.value[k] : k \in DOMAIN listed.result.value}

\* C27: when no store errors, get_statement of the identifier of a message
\* that statements yields returns a message, and every message get_statement
\* returns is among those statements yields.
C27_ReadPathsAgree ==
    (Listed /\ Called) =>
        /\ found.id \in {m.id : m \in Yielded} => found.result # Ok(None)
        /\ found.result # Ok(None) => found.result.value \in Yielded

(***************************************************************************)
(* C21, C22, C23: the mutating operations of a View.                       *)
(***************************************************************************)
\* Every stated message in any agent's view was stated by its author, and
\* every enacted action was enacted by its actor.
NoForgery ==
    /\ \A w \in local.statedBy : w.by = w.item.author_id
    /\ \A w \in local.enactedBy : w.by = w.item.actor_id
    /\ \A a \in AgentIds :
        /\ \A m \in local.stated[a] : [by |-> m.author_id, item |-> m] \in local.statedBy
        /\ \A e \in local.enacted[a] : [by |-> e.actor_id, item |-> e] \in local.enactedBy

\* A state of a message of another author and an enact of an action of
\* another actor are rejected and change no store.
RejectsForeign ==
    LET o == outcome'
    IN  (o # NotCalled) =>
            /\ (o.op = "state" /\ o.arg.author_id # o.caller) =>
                   (o.result = Err(IllegalState) /\ local' = local)
            /\ (o.op = "enact" /\ o.arg.actor_id # o.caller) =>
                   (o.result = Err(IllegalEnact) /\ local' = local)

\* C21: state(msg) is rejected with IllegalState unless the caller is the
\* author of msg, enact(action) with IllegalEnact unless the caller is the
\* actor of action; a rejected call changes no store, and no store ever holds
\* a message or an action written by an agent under another's identity.
C21_AccessControl == [](local.kind = "Views" => NoForgery) /\ [][RejectsForeign]_vars

\* Agent 2 was refused when it stated a message of agent 1, which agent 1 has
\* itself stated to agent 3.
C21_Witness ==
    /\ outcome # NotCalled
    /\ outcome.op = "state"
    /\ outcome.caller = 2
    /\ outcome.arg.author_id = 1
    /\ outcome.result = Err(IllegalState)
    /\ outcome.arg \in local.stated[3]
    /\ local.enacted[2] # {}

\* C22: gossip(to, msg) fails with IllegalGossip, changing nothing, when msg
\* is not in the caller's own stated set; otherwise it succeeds and msg is in
\* the stated set of every agent that to selects.
C22_GossipGate ==
    [][LET o == outcome'
       IN  (o # NotCalled /\ o.op = "gossip") =>
               IF o.arg \in local.stated[o.caller]
               THEN /\ o.result = Ok("()")
                    /\ \A a \in Selected(o.to) : o.arg \in local'.stated[a]
               ELSE /\ o.result = Err(IllegalGossip)
                    /\ local' = local]_vars

\* An agent forwarded a message of another author to one agent, which now
\* holds it, while the third agent does not.
C22_Witness ==
    /\ outcome # NotCalled
    /\ outcome.op = "gossip"
    /\ outcome.result = Ok("()")
    /\ outcome.to # All
    /\ outcome.to.id # outcome.caller
    /\ outcome.arg.author_id \notin {outcome.caller, outcome.to.id}
    /\ outcome.arg \in local.stated[outcome.to.id]
    /\ \E a \in AgentIds : outcome.arg \notin local.stated[a]

\* The asynchronous store an operation adds to.
StoreOf(l, op) == IF op = "enact" THEN l.enacted ELSE l.stated

\* An accepted add to One(a) is visible to a and changes the view of no
\* other agent; an accepted add to All is visible to every agent.
DeliversSelectively ==
    LET o == outcome'
    IN  (o # NotCalled /\ o.op \in {"state", "enact", "gossip"} /\ o.result = Ok("()")) =>
            /\ \A a \in Selected(o.to) : o.arg \in StoreOf(local', o.op)[a]
            /\ \A b \in AgentIds \ Selected(o.to) : ViewOf(local', b) = ViewOf(local, b)

\* C23: after add(One(a), elem) the element is in the local view of a and the
\* view of no other agent is changed; after add(All, elem) it is in the view
\* of every agent; the synchronized agreed store is the same for all agents.
C23_SelectiveDelivery ==
    /\ [](local.kind = "Views" => \A a, b \in AgentIds : local.agreed[a] = local.agreed[b])
    /\ [][DeliversSelectively]_vars

\* After an add to one agent the stated stores of two agents differ, while
\* all hold the same, non-empty, agreements.
C23_Witness ==
    /\ outcome # NotCalled
    /\ outcome.op = "state"
    /\ outcome.result = Ok("()")
    /\ outcome.to # All
    /\ outcome.arg \in local.stated[outcome.to.id]
    /\ \E b \in AgentIds : local.stated[b] # local.stated[outcome.to.id]
    /\ local.agreed[1] # {}
    /\ \E m \in AgentMessages : \A a \in AgentIds : m \in local.stated[a]

====
